---------------------------- MODULE Spec2Model ----------------------------
(***************************************************************************)
(* The AI command/completion client of bifrost (vimgram):                  *)
(*   src/src/ai/config.rs  -- AIConfig: defaults, load(), is_ready()       *)
(*   src/src/ai/client.rs  -- AIClient: complete_with_system and the three *)
(*                            task operations built on it, and AICommand.  *)
(*                                                                         *)
(* Three specifications share the variables:                               *)
(*   SpecLoad  -- a process start: AIConfig::load() over every state of    *)
(*                the environment variable and of the persisted file;      *)
(*   Spec      -- an AIClient built on any AIConfig, its operations and    *)
(*                the endpoint's answers;                                  *)
(*   SpecParse -- parse_command on a ready client over a wide set of model *)
(*                outputs (fences, tags, prose, JSON documents).           *)
(***************************************************************************)
EXTENDS Integers, Sequences, FiniteSets, TLC

VARIABLES
    env,        \* the process environment's VIMGRAM_AI_KEY
    file,       \* the persisted ai.json
    config,     \* the AIConfig (load()'s result / the client's config)
    pc,         \* "start" | "loaded" | "idle" | "awaiting"
    op,         \* the operation being (or last) invoked, with its arguments
    request,    \* the outbound request of the invocation, if one was sent
    nreq,       \* outbound requests issued by the invocation
    response,   \* the transport's outcome for the invocation, if any
    result      \* what the invocation returned

vars == <<env, file, config, pc, op, request, nreq, response, result>>

(***************************************************************************)
(* Option<T> is a sequence of length 0 or 1.                               *)
(***************************************************************************)
None == <<>>
Some(x) == <<x>>

(***************************************************************************)
(* JSON values as far as serde's typed decoding tells them apart.          *)
(***************************************************************************)
JAbsent == [t |-> "absent"]
JNull == [t |-> "null"]
JFloat == [t |-> "float"]
\* an integer above u32::MAX (4294967295)
JIntOverU32 == [t |-> "int>u32"]
JStr(s) == [t |-> "str", v |-> s]
JInt(n) == [t |-> "int", v |-> n]
JBool(b) == [t |-> "bool", v |-> b]

\* A String field: present and a JSON string.
IsStr(j) == j.t = "str"
\* An Option<String> field: absent, null, or a JSON string.
IsOptStr(j) == j.t \in {"absent", "null", "str"}
OptStr(j) == IF j.t = "str" THEN Some(j.v) ELSE None

(***************************************************************************)
(* config.rs                                                               *)
(***************************************************************************)
default_model == "gemini-2.0-flash"
default_base_url == "https://generativelanguage.googleapis.com/v1beta"
default_enabled == TRUE

AIConfigDefault ==
    [api_key |-> "", model |-> default_model,
     base_url |-> default_base_url, enabled |-> default_enabled]

\* A faulty variant: readiness without the enabled test.
is_ready_ignores_enabled(c) == c.api_key # ""
is_ready(c) == c.enabled /\ c.api_key # ""

\* The environment variable: unset, set to a value that is valid Unicode,
\* or set to a value that is not (std::env::var then answers Err(NotUnicode)).
EnvUnset == [kind |-> "unset", val |-> ""]
EnvNotUnicode == [kind |-> "notunicode", val |-> "<bytes that are not UTF-8>"]
EnvUnicode(v) == [kind |-> "unicode", val |-> v]

\* std::env::var("VIMGRAM_AI_KEY"): Ok(value) only for a set, Unicode value.
env_var_ok(e) == e.kind = "unicode"

\* The persisted file: no config directory (get_config_path() is None), no
\* file at the path, a path that exists but cannot be read as a string, or
\* contents: not a JSON object, or a JSON object with these fields.
BlankObj == [api_key |-> JAbsent, model |-> JAbsent, base_url |-> JAbsent, enabled |-> JAbsent]
FileNoPath == [state |-> "nopath", obj |-> BlankObj]
FileAbsent == [state |-> "absent", obj |-> BlankObj]
FileUnreadable == [state |-> "unreadable", obj |-> BlankObj]
FileGarbage == [state |-> "garbage", obj |-> BlankObj]
FileObject(o) == [state |-> "object", obj |-> o]

\* A faulty variant: api_key treated as optional.
config_parses_lenient(o) ==
    /\ o.model.t \in {"absent", "str"}
    /\ o.base_url.t \in {"absent", "str"}
    /\ o.enabled.t \in {"absent", "bool"}
\* serde's derived Deserialize for AIConfig: api_key is required, the other
\* three have #[serde(default = ...)]; a field of the wrong type is an error.
config_parses(o) ==
    /\ IsStr(o.api_key)
    /\ o.model.t \in {"absent", "str"}
    /\ o.base_url.t \in {"absent", "str"}
    /\ o.enabled.t \in {"absent", "bool"}

config_from_json(o) ==
    [api_key |-> IF IsStr(o.api_key) THEN o.api_key.v ELSE "",
     model |-> IF o.model.t = "absent" THEN default_model ELSE o.model.v,
     base_url |-> IF o.base_url.t = "absent" THEN default_base_url ELSE o.base_url.v,
     enabled |-> IF o.enabled.t = "absent" THEN default_enabled ELSE o.enabled.v]

\* get_config_path(), path.exists(), fs::read_to_string(), serde_json::from_str()
get_config_path_some(f) == f.state # "nopath"
path_exists(f) == f.state \notin {"nopath", "absent"}
read_to_string_ok(f) == f.state \in {"garbage", "object"}
from_str_config_ok(f) == f.state = "object" /\ config_parses(f.obj)

\* A faulty variant: the persisted file consulted before the environment.
load_file_first(e, f) ==
    IF get_config_path_some(f) /\ path_exists(f) /\ read_to_string_ok(f)
       /\ from_str_config_ok(f)
    THEN config_from_json(f.obj)
    ELSE IF env_var_ok(e) THEN [AIConfigDefault EXCEPT !.api_key = e.val]
    ELSE AIConfigDefault
load(e, f) ==
    IF env_var_ok(e) THEN [AIConfigDefault EXCEPT !.api_key = e.val]
    ELSE IF get_config_path_some(f) /\ path_exists(f) /\ read_to_string_ok(f)
            /\ from_str_config_ok(f)
    THEN config_from_json(f.obj)
    ELSE AIConfigDefault

(***************************************************************************)
(* Text.  A text is a sequence of tokens, each an indivisible piece of the *)
(* string:  "F" a triple-backtick fence, "J" the word json, "W" white      *)
(* space (blanks, line breaks), "X" prose that is not JSON and neither     *)
(* starts nor ends with a backtick or white space, "D" a JSON document     *)
(* (which starts and ends with neither); doc is the document every "D"     *)
(* stands for.                                                             *)
(***************************************************************************)
NoDoc == [form |-> "none"]
Text(toks, doc) == [toks |-> toks, doc |-> IF "D" \in {toks[i] : i \in DOMAIN toks} THEN doc ELSE NoDoc]

FENCE == <<"F">>
FENCE_JSON == <<"F", "J">>

\* str::starts_with / ends_with
starts_with(s, pat) == Len(s) >= Len(pat) /\ SubSeq(s, 1, Len(pat)) = pat
ends_with(s, pat) == Len(s) >= Len(pat) /\ SubSeq(s, Len(s) - Len(pat) + 1, Len(s)) = pat

\* str::trim_start_matches / trim_end_matches: the pattern is removed as
\* often as it matches.
RECURSIVE trim_start_matches(_, _)
trim_start_matches(s, pat) ==
    IF starts_with(s, pat)
    THEN trim_start_matches(SubSeq(s, Len(pat) + 1, Len(s)), pat)
    ELSE s

RECURSIVE trim_end_matches(_, _)
trim_end_matches(s, pat) ==
    IF ends_with(s, pat)
    THEN trim_end_matches(SubSeq(s, 1, Len(s) - Len(pat)), pat)
    ELSE s

\* str::trim: leading and trailing white space removed.
trim(s) == trim_end_matches(trim_start_matches(s, <<"W">>), <<"W">>)

\* A faulty variant: the trailing fence left in place.
json_str_keeps_trailing_fence(toks) ==
    LET trimmed == trim(toks) IN
    IF starts_with(trimmed, FENCE)
    THEN trim(trim_start_matches(trim_start_matches(trimmed, FENCE_JSON), FENCE))
    ELSE trimmed
\* client.rs 193-203: the text handed to serde_json::from_str.
json_str(toks) ==
    LET trimmed == trim(toks) IN
    IF starts_with(trimmed, FENCE)
    THEN trim(trim_end_matches(
             trim_start_matches(trim_start_matches(trimmed, FENCE_JSON), FENCE),
             FENCE))
    ELSE trimmed

(***************************************************************************)
(* AICommand and its derived, internally tagged Deserialize                *)
(* (#[serde(tag = "action", rename_all = "lowercase")]).                   *)
(***************************************************************************)
Mute(n) == [variant |-> "Mute", duration_seconds |-> n]
Unmute == [variant |-> "Unmute"]
Search(q, u) == [variant |-> "Search", query |-> q, from_user |-> u]
Send(to, text) == [variant |-> "Send", to |-> to, text |-> text]
Reply(tone) == [variant |-> "Reply", tone |-> tone]
Unknown(reason) == [variant |-> "Unknown", reason |-> reason]

DecOk(c) == [okc |-> TRUE, cmd |-> c]
DecErr(d) == [okc |-> FALSE, diag |-> d]

\* A faulty variant: whatever matches no variant becomes Unknown.
decode_command_coerces(d) ==
    IF d.form # "object" THEN DecOk(Unknown("not an object"))
    ELSE IF ~IsStr(d.action) THEN DecOk(Unknown("no action"))
    ELSE IF d.action.v = "mute" /\ d.duration_seconds.t = "int"
            /\ d.duration_seconds.v >= 0
         THEN DecOk(Mute(d.duration_seconds.v))
    ELSE IF d.action.v = "unmute" THEN DecOk(Unmute)
    ELSE IF d.action.v = "search" /\ IsStr(d.query) /\ IsOptStr(d.from_user)
         THEN DecOk(Search(d.query.v, OptStr(d.from_user)))
    ELSE IF d.action.v = "send" /\ IsStr(d.to) /\ IsStr(d.text)
         THEN DecOk(Send(d.to.v, d.text.v))
    ELSE IF d.action.v = "reply" /\ IsOptStr(d.tone) THEN DecOk(Reply(OptStr(d.tone)))
    ELSE IF d.action.v = "unknown" /\ IsStr(d.reason) THEN DecOk(Unknown(d.reason.v))
    ELSE DecOk(Unknown("no match"))
\* A JSON document (top-level object, or any other JSON value) against the
\* six variants.  Fields a variant does not name are ignored.
decode_command(d) ==
    IF d.form # "object" THEN DecErr("invalid type")
    ELSE IF d.action.t = "absent" THEN DecErr("missing field action")
    ELSE IF ~IsStr(d.action) THEN DecErr("invalid type")
    ELSE IF d.action.v = "mute" THEN
        IF d.duration_seconds.t = "absent" THEN DecErr("missing field duration_seconds")
        ELSE IF d.duration_seconds.t = "int>u32" THEN DecErr("invalid value")
        ELSE IF d.duration_seconds.t # "int" THEN DecErr("invalid type")
        ELSE IF d.duration_seconds.v < 0 THEN DecErr("invalid value")
        ELSE DecOk(Mute(d.duration_seconds.v))
    ELSE IF d.action.v = "unmute" THEN DecOk(Unmute)
    ELSE IF d.action.v = "search" THEN
        IF d.query.t = "absent" THEN DecErr("missing field query")
        ELSE IF ~IsStr(d.query) \/ ~IsOptStr(d.from_user) THEN DecErr("invalid type")
        ELSE DecOk(Search(d.query.v, OptStr(d.from_user)))
    ELSE IF d.action.v = "send" THEN
        IF d.to.t = "absent" THEN DecErr("missing field to")
        ELSE IF d.text.t = "absent" THEN DecErr("missing field text")
        ELSE IF ~IsStr(d.to) \/ ~IsStr(d.text) THEN DecErr("invalid type")
        ELSE DecOk(Send(d.to.v, d.text.v))
    ELSE IF d.action.v = "reply" THEN
        IF ~IsOptStr(d.tone) THEN DecErr("invalid type")
        ELSE DecOk(Reply(OptStr(d.tone)))
    ELSE IF d.action.v = "unknown" THEN
        IF d.reason.t = "absent" THEN DecErr("missing field reason")
        ELSE IF ~IsStr(d.reason) THEN DecErr("invalid type")
        ELSE DecOk(Unknown(d.reason.v))
    ELSE DecErr("unknown variant")

\* serde_json::from_str::<AICommand>: the text must be exactly one JSON
\* document (white space around it was trimmed away before).
from_str_command(toks, doc) ==
    IF toks = <<"D">> THEN decode_command(doc) ELSE DecErr("syntax")

(***************************************************************************)
(* AIError and Result.  An error's message is kept as what it was built    *)
(* from, so that two messages are equal exactly when their parts are.      *)
(***************************************************************************)
Ok(v) == [ok |-> TRUE, val |-> v]
Err(e) == [ok |-> FALSE, error |-> e]

NotConfigured == [err |-> "NotConfigured"]
NetworkError(m) == [err |-> "NetworkError", msg |-> m]
ApiError(m) == [err |-> "ApiError", msg |-> m]
ParseError(m) == [err |-> "ParseError", msg |-> m]
RateLimited(secs) == [err |-> "RateLimited", secs |-> secs]

\* e.to_string() of a transport or decoding error
Display(d) == [fmt |-> "display", of |-> d]
\* a string taken as it is (error.message, a literal)
Literal(s) == [fmt |-> "literal", text |-> s]
\* format!("{}: {}", status, body)
StatusBody(status, body) == [fmt |-> "status: body", status |-> status, body |-> body]
\* format!("Invalid JSON: {} - Response: {}", e, response)
InvalidJson(e, resp) == [fmt |-> "Invalid JSON: e - Response: response", e |-> e, response |-> resp]

(***************************************************************************)
(* The endpoint's answer to one request.                                   *)
(***************************************************************************)
\* A response body: one that cannot be read (the connection breaks), an
\* empty one, text that is not JSON, JSON that is not a GeminiResponse (a
\* candidate without content, candidates that is no array, ...), or a
\* GeminiResponse: candidates and error are Option fields.
Body(kind, hc, cands, he, msg) ==
    [kind |-> kind, has_candidates |-> hc, candidates |-> cands,
     has_error |-> he, error_message |-> msg]
BodyUnreadable == Body("unreadable", FALSE, <<>>, FALSE, "")
BodyEmpty == Body("empty", FALSE, <<>>, FALSE, "")
BodyNotJson == Body("notjson", FALSE, <<>>, FALSE, "")
BodyBadShape == Body("badshape", FALSE, <<>>, FALSE, "")
GeminiResponse(hc, cands, he, msg) == Body("json", hc, cands, he, msg)
GeminiCandidate(parts) == [parts |-> parts]

NetFail(d) == [kind |-> "neterr", diag |-> d, status |-> 0, body |-> BodyEmpty]
Http(status, body) == [kind |-> "http", diag |-> "", status |-> status, body |-> body]

TOO_MANY_REQUESTS == 429
RATE_LIMIT_WAIT == 60
NO_RESPONSE == "No response from AI"

\* StatusCode::is_success
is_success(status) == status >= 200 /\ status <= 299

\* response.text().await.unwrap_or_default()
text_unwrap_or_default(body) == IF body.kind = "unreadable" THEN BodyEmpty ELSE body

\* A faulty variant: the first candidate that has a part, not the first candidate.
extract_text_any_candidate(b) ==
    LET withPart == {i \in DOMAIN b.candidates : Len(b.candidates[i].parts) > 0} IN
    IF b.has_candidates /\ withPart # {}
    THEN Ok(b.candidates[CHOOSE i \in withPart : \A j \in withPart : i <= j].parts[1])
    ELSE Err(ParseError(Literal(NO_RESPONSE)))
\* client.rs 168-174
extract_text(b) ==
    IF b.has_candidates /\ Len(b.candidates) > 0 /\ Len(b.candidates[1].parts) > 0
    THEN Ok(b.candidates[1].parts[1])
    ELSE Err(ParseError(Literal(NO_RESPONSE)))

\* A faulty variant: the text is extracted before the error field is looked at.
handle_response_text_before_error(r) ==
    IF r.kind = "neterr" THEN Err(NetworkError(Display(r.diag)))
    ELSE IF r.status = TOO_MANY_REQUESTS THEN Err(RateLimited(RATE_LIMIT_WAIT))
    ELSE IF ~is_success(r.status)
         THEN Err(ApiError(StatusBody(r.status, text_unwrap_or_default(r.body))))
    ELSE IF r.body.kind # "json" THEN Err(ParseError(Display(r.body.kind)))
    ELSE IF extract_text(r.body).ok THEN extract_text(r.body)
    ELSE IF r.body.has_error THEN Err(ApiError(Literal(r.body.error_message)))
    ELSE extract_text(r.body)
\* A faulty variant: the non-success test ahead of the 429 test.
handle_response_status_first(r) ==
    IF r.kind = "neterr" THEN Err(NetworkError(Display(r.diag)))
    ELSE IF ~is_success(r.status)
         THEN Err(ApiError(StatusBody(r.status, text_unwrap_or_default(r.body))))
    ELSE IF r.status = TOO_MANY_REQUESTS THEN Err(RateLimited(RATE_LIMIT_WAIT))
    ELSE IF r.body.kind # "json" THEN Err(ParseError(Display(r.body.kind)))
    ELSE IF r.body.has_error THEN Err(ApiError(Literal(r.body.error_message)))
    ELSE extract_text(r.body)
\* client.rs 139-175: what complete_with_system returns for the answer r.
handle_response(r) ==
    IF r.kind = "neterr" THEN Err(NetworkError(Display(r.diag)))
    ELSE IF r.status = TOO_MANY_REQUESTS THEN Err(RateLimited(RATE_LIMIT_WAIT))
    ELSE IF ~is_success(r.status)
         THEN Err(ApiError(StatusBody(r.status, text_unwrap_or_default(r.body))))
    ELSE IF r.body.kind # "json" THEN Err(ParseError(Display(r.body.kind)))
    ELSE IF r.body.has_error THEN Err(ApiError(Literal(r.body.error_message)))
    ELSE extract_text(r.body)

(***************************************************************************)
(* Requests.  A message is the sequence of the pieces it is formatted      *)
(* from.                                                                   *)
(***************************************************************************)
TEMPERATURE == "0.7"
MAX_OUTPUT_TOKENS == 2048

GeminiRequest(cfg, system, user) ==
    [url |-> <<cfg.base_url, "/models/", cfg.model, ":generateContent?key=", cfg.api_key>>,
     content_type |-> "application/json",
     contents |-> <<[role |-> Some("user"), parts |-> <<user>>]>>,
     system_instruction |->
         IF system = None THEN None ELSE Some([role |-> None, parts |-> <<system[1]>>]),
     temperature |-> TEMPERATURE,
     max_output_tokens |-> MAX_OUTPUT_TOKENS]

PARSER_SYSTEM == "You are a Telegram command parser. ... Respond with ONLY valid JSON, no explanation."
CODE_SYSTEM == "You are a coding assistant integrated into a terminal app. ..."
REPLY_FRAME_HEAD == "You are helping draft a reply in a chat application.\nGiven the chat history, generate a helpful, concise reply.\n"
REPLY_FRAME_TAIL == "\nDo NOT include greetings unless the conversation warrants it.\nKeep the reply brief and natural.\nRespond with ONLY the reply text, no quotes or explanation."
TONE_FORMAL == "Use a professional, formal tone."
TONE_TECHNICAL == "Use a detailed, technical tone with specific terminology."
TONE_CASUAL == "Use a friendly, casual tone."

\* A faulty variant: formal as the fallback.
tone_instruction_formal_default(tone) ==
    IF tone = Some("casual") THEN TONE_CASUAL
    ELSE IF tone = Some("technical") THEN TONE_TECHNICAL
    ELSE TONE_FORMAL
\* client.rs 216-220
tone_instruction(tone) ==
    IF tone = Some("formal") THEN TONE_FORMAL
    ELSE IF tone = Some("technical") THEN TONE_TECHNICAL
    ELSE TONE_CASUAL

(***************************************************************************)
(* The operations: the system instruction and user message each hands to   *)
(* complete_with_system, and what it makes of the completion.              *)
(***************************************************************************)
Op(name, arg, system, tone) == [name |-> name, arg |-> arg, system |-> system, tone |-> tone]
NoOp == Op("none", "", None, None)

op_system(o) ==
    IF o.name = "complete" THEN None
    ELSE IF o.name = "complete_with_system"
         THEN (IF o.system = None THEN None ELSE Some(<<o.system[1]>>))
    ELSE IF o.name = "parse_command" THEN Some(<<PARSER_SYSTEM>>)
    ELSE IF o.name = "generate_reply"
         THEN Some(<<REPLY_FRAME_HEAD, tone_instruction(o.tone), REPLY_FRAME_TAIL>>)
    ELSE Some(<<CODE_SYSTEM>>)

op_user(o) ==
    IF o.name = "generate_reply"
    THEN <<"Chat history:\n", o.arg, "\n\nDraft a reply:">>
    ELSE <<o.arg>>

\* A faulty variant: failures answered with Unknown.
parse_command_defaults_to_unknown(r) ==
    IF ~r.ok THEN Ok(Unknown("completion failed"))
    ELSE LET d == from_str_command(json_str(r.val.toks), r.val.doc) IN
         IF d.okc THEN Ok(d.cmd) ELSE Ok(Unknown(d.diag))
\* client.rs 190-207: parse_command after the completion r.
parse_command_after(r) ==
    IF ~r.ok THEN r
    ELSE LET d == from_str_command(json_str(r.val.toks), r.val.doc) IN
         IF d.okc THEN Ok(d.cmd)
         ELSE Err(ParseError(InvalidJson(d.diag, r.val)))

\* A faulty variant: the task operations re-wrap the completion error.
op_after_wraps_errors(o, r) ==
    IF o.name \in {"complete", "complete_with_system"} THEN r
    ELSE IF ~r.ok THEN Err(ApiError(Display(r.error.err)))
    ELSE IF o.name = "parse_command" THEN parse_command_after(r)
    ELSE r
\* What the operation o returns for the completion r: parse_command decodes
\* it, the others return it as it is (client.rs 101, 190-207, 232-236, 247).
op_after(o, r) == IF o.name = "parse_command" THEN parse_command_after(r) ELSE r

(***************************************************************************)
(* Bounds and input sets.                                                  *)
(***************************************************************************)
MaxCandidates == 2
MaxToks == 5

BoundedSeq(S, n) == UNION {[1..k -> S] : k \in 0..n}

\* --- process start -------------------------------------------------------
EnvStates == {EnvUnset, EnvNotUnicode} \cup {EnvUnicode(v) : v \in {"", "X", "Y"}}

FileObjects ==
    [api_key : {JAbsent, JNull, JStr(""), JStr("X"), JStr("K")},
     model : {JAbsent, JInt(1), JStr(default_model), JStr("glm-4")},
     base_url : {JAbsent, JNull, JStr("https://example.test/v1")},
     enabled : {JAbsent, JStr("true"), JBool(TRUE), JBool(FALSE)}]

FileStates ==
    {FileNoPath, FileAbsent, FileUnreadable, FileGarbage}
        \cup {FileObject(o) : o \in FileObjects}

\* --- the client ----------------------------------------------------------
Configs ==
    [api_key : {"", "X"}, model : {default_model},
     base_url : {default_base_url}, enabled : BOOLEAN]
        \cup [api_key : {"", "K"}, model : {"glm-4"},
              base_url : {"https://example.test/v1"}, enabled : {TRUE}]

Tones == {None, Some("formal"), Some("technical"), Some("casual"), Some("Formal")}

Ops ==
    {Op("complete", "hi", None, None)}
        \cup {Op("complete_with_system", "hi", sys, None) : sys \in {None, Some("be brief")}}
        \cup {Op("parse_command", "mute for an hour", None, None)}
        \cup {Op("generate_reply", "a: hi", None, tone) : tone \in Tones}
        \cup {Op("generate_reply", "b: bye", None, tone) : tone \in {None, Some("formal")}}
        \cup {Op("code_assist", "sort a vec", None, None)}

Doc(action, dur, query, from_user, to, text, tone, reason) ==
    [form |-> "object", action |-> action, duration_seconds |-> dur, query |-> query,
     from_user |-> from_user, to |-> to, text |-> text, tone |-> tone, reason |-> reason]

MuteDoc == Doc(JStr("mute"), JInt(3600), JAbsent, JAbsent, JAbsent, JAbsent, JAbsent, JAbsent)
UnknownDoc == Doc(JStr("unknown"), JAbsent, JAbsent, JAbsent, JAbsent, JAbsent, JAbsent, JStr("no match"))

Plain == <<"D">>
Fenced == <<"F", "J", "W", "D", "W", "F">>

Hello == Text(<<"X">>, NoDoc)
FencedMute == Text(Fenced, MuteDoc)

PartLists == {<<>>, <<Hello>>, <<FencedMute>>, <<Hello, FencedMute>>, <<FencedMute, Hello>>}
Candidates == {GeminiCandidate(p) : p \in PartLists}

Statuses == {200, 204, 301, 429, 500}

Bodies ==
    {BodyUnreadable, BodyEmpty, BodyNotJson, BodyBadShape}
        \cup {GeminiResponse(FALSE, <<>>, he, IF he THEN "quota exceeded" ELSE "")
                : he \in BOOLEAN}
        \cup {GeminiResponse(TRUE, c, he, IF he THEN "quota exceeded" ELSE "")
                : c \in BoundedSeq(Candidates, MaxCandidates), he \in BOOLEAN}

Responses ==
    {NetFail(d) : d \in {"connection refused", "timed out"}}
        \cup {Http(s, b) : s \in Statuses, b \in Bodies}

\* --- parse_command's model outputs ---------------------------------------
Tokens == {"F", "J", "W", "X", "D"}

JsonValues ==
    {JAbsent, JNull, JFloat, JStr("a"), JStr("3600"), JInt(-1), JInt(0), JInt(3600),
     JIntOverU32}
JsonPresence == {JAbsent, JStr("a")}

ActionTags ==
    {JAbsent, JInt(1)}
        \cup {JStr(a) : a \in {"mute", "unmute", "search", "send", "reply", "unknown",
                               "Mute", "delete"}}

Fields == {"duration_seconds", "query", "from_user", "to", "text", "tone", "reason"}

\* A document with the tag a, the field f1 holding v1, the field f2 holding
\* v2, and no other field.
DocWith(a, f1, v1, f2, v2) ==
    LET V(f) == IF f = f1 THEN v1 ELSE IF f = f2 THEN v2 ELSE JAbsent IN
    Doc(a, V("duration_seconds"), V("query"), V("from_user"), V("to"), V("text"),
        V("tone"), V("reason"))

ScalarDoc == [DocWith(JAbsent, "query", JAbsent, "query", JAbsent) EXCEPT !.form = "scalar"]

Docs ==
    {ScalarDoc}
        \cup {DocWith(a, f1, v1, f2, v2) :
                a \in ActionTags, f1 \in Fields, v1 \in JsonValues,
                f2 \in Fields, v2 \in JsonPresence}

ModelOutputs ==
    {Text(t, d) : t \in BoundedSeq(Tokens, MaxToks), d \in {MuteDoc, UnknownDoc}}
        \cup {Text(t, d) : t \in {Plain, Fenced}, d \in Docs}

ParseResponses ==
    {Http(200, GeminiResponse(TRUE, <<GeminiCandidate(<<t>>)>>, FALSE, "")) : t \in ModelOutputs}
        \cup {NetFail("timed out"), Http(TOO_MANY_REQUESTS, BodyEmpty), Http(500, BodyNotJson),
              Http(200, BodyNotJson), Http(200, GeminiResponse(TRUE, <<>>, FALSE, "")),
              Http(200, GeminiResponse(FALSE, <<>>, TRUE, "quota exceeded"))}

ParseOps == {o \in Ops : o.name = "parse_command"}
ReadyConfig == [AIConfigDefault EXCEPT !.api_key = "X"]

(***************************************************************************)
(* Actions.                                                                *)
(***************************************************************************)
\* AIConfig::load() at process start.
Load ==
    /\ pc = "start"
    /\ config' = load(env, file)
    /\ pc' = "loaded"
    /\ UNCHANGED <<env, file, op, request, nreq, response, result>>

\* AIConfig::is_ready() on the loaded configuration.
LoadedIsReady ==
    /\ pc = "loaded"
    /\ op' = Op("is_ready", "", None, None)
    /\ result' = Some([bool |-> is_ready(config)])
    /\ UNCHANGED <<env, file, config, pc, request, nreq, response>>

\* AIClient::is_ready()
IsReady ==
    /\ pc = "idle"
    /\ op' = Op("is_ready", "", None, None)
    /\ result' = Some([bool |-> is_ready(config)])
    /\ request' = None
    /\ nreq' = 0
    /\ response' = None
    /\ UNCHANGED <<env, file, config, pc>>

\* An operation is invoked: it builds its messages and enters
\* complete_with_system, which returns NotConfigured at once or sends the
\* request and awaits the answer (client.rs 110-146).
Call(o) ==
    /\ pc = "idle"
    /\ op' = o
    /\ response' = None
    /\ IF ~is_ready(config)
       THEN /\ result' = Some(Err(NotConfigured))
            /\ request' = None
            /\ nreq' = 0
            /\ pc' = "idle"
       ELSE /\ result' = None
            /\ request' = Some(GeminiRequest(config, op_system(o), op_user(o)))
            /\ nreq' = 1
            /\ pc' = "awaiting"
    /\ UNCHANGED <<env, file, config>>

\* The transport's outcome arrives; complete_with_system turns it into a
\* Result and the operation returns (client.rs 146-175, 190-207).
Respond(r) ==
    /\ pc = "awaiting"
    /\ response' = Some(r)
    /\ result' = Some(op_after(op, handle_response(r)))
    /\ pc' = "idle"
    /\ UNCHANGED <<env, file, config, op, request, nreq>>

CallAny == pc = "idle" /\ \E o \in Ops : Call(o)
RespondAny == pc = "awaiting" /\ \E r \in Responses : Respond(r)
CallParse == pc = "idle" /\ \E o \in ParseOps : Call(o)
RespondParse == pc = "awaiting" /\ \E r \in ParseResponses : Respond(r)

(***************************************************************************)
(* Specifications.                                                         *)
(***************************************************************************)
InitLoad ==
    /\ env \in EnvStates
    /\ file \in FileStates
    /\ config = AIConfigDefault
    /\ pc = "start"
    /\ op = NoOp
    /\ request = None
    /\ nreq = 0
    /\ response = None
    /\ result = None

NextLoad == Load \/ LoadedIsReady

SpecLoad == InitLoad /\ [][NextLoad]_vars

\* AIClient::new(config): any AIConfig (its fields are public).
Init ==
    /\ env = EnvUnset
    /\ file = FileNoPath
    /\ config \in Configs
    /\ pc = "idle"
    /\ op = NoOp
    /\ request = None
    /\ nreq = 0
    /\ response = None
    /\ result = None

Next == IsReady \/ CallAny \/ RespondAny

Spec == Init /\ [][Next]_vars

InitParse ==
    /\ env = EnvUnset
    /\ file = FileNoPath
    /\ config = ReadyConfig
    /\ pc = "idle"
    /\ op = NoOp
    /\ request = None
    /\ nreq = 0
    /\ response = None
    /\ result = None

NextParse == CallParse \/ RespondParse

SpecParse == InitParse /\ [][NextParse]_vars

(***************************************************************************)
(* Properties.                                                             *)
(***************************************************************************)
CompletionOps == {"complete", "complete_with_system", "parse_command", "generate_reply", "code_assist"}

\* The invocation's answer from the endpoint, once it has arrived.
Answered == response # None
Answer == response[1]

\* C1: a configuration with an empty api_key or with enabled false is not
\* ready: is_ready() answers false, and each completion operation returns
\* NotConfigured without having issued a request; is_ready() answers true
\* exactly when enabled is true and api_key is not empty.
C1_NotReadyIsNotConfigured ==
    LET notReady == config.api_key = "" \/ config.enabled = FALSE IN
    /\ op.name = "is_ready" => result = Some([bool |-> ~notReady])
    /\ op.name \in CompletionOps /\ notReady =>
          /\ result = Some(Err([err |-> "NotConfigured"]))
          /\ nreq = 0
          /\ request = None
          /\ response = None
          /\ pc = "idle"

C1_Witness ==
    /\ op.name = "parse_command"
    /\ config.api_key # ""
    /\ ~config.enabled
    /\ result = Some(Err([err |-> "NotConfigured"]))
    /\ nreq = 0

\* C2 as stated: whenever VIMGRAM_AI_KEY is set, to whatever value, load()
\* returns that value as api_key with the default model, base_url and
\* enabled, whatever the persisted file holds.
C2_AnySetValueWins ==
    pc = "loaded" /\ env.kind # "unset" =>
        config = [api_key |-> env.val, model |-> "gemini-2.0-flash",
                  base_url |-> "https://generativelanguage.googleapis.com/v1beta",
                  enabled |-> TRUE]

\* C2, amended: whenever VIMGRAM_AI_KEY is set to a value X that is valid
\* Unicode (the empty string included), load() returns api_key X with the
\* default model, base_url and enabled, whatever the persisted file holds;
\* set to a value that is not valid Unicode, the variable counts as unset
\* and load() returns what it returns for the same file without it.
C2_UnicodeValueWins ==
    pc = "loaded" =>
        /\ env.kind = "unicode" =>
              config = [api_key |-> env.val, model |-> "gemini-2.0-flash",
                        base_url |-> "https://generativelanguage.googleapis.com/v1beta",
                        enabled |-> TRUE]
        /\ env.kind = "notunicode" => config = load(EnvUnset, file)

C2_Witness ==
    /\ pc = "loaded"
    /\ env = EnvUnicode("X")
    /\ file.state = "object"
    /\ file.obj.api_key = JStr("K")
    /\ file.obj.model = JStr("glm-4")
    /\ file.obj.enabled = JBool(FALSE)
    /\ config.api_key = "X"
    /\ config.enabled

\* C3: load() always returns a configuration.  With the environment
\* variable unset it is the persisted file's configuration when the file
\* exists, can be read and parses (model, base_url and enabled defaulted
\* when the file omits them), and the default configuration, which is not
\* ready, in every other case: no path, no file, unreadable, not JSON, a
\* field of the wrong type, no api_key.
C3_LoadNeverFails ==
    LET o == file.obj
        parses == /\ file.state = "object"
                  /\ o.api_key.t = "str"
                  /\ o.model.t \in {"absent", "str"}
                  /\ o.base_url.t \in {"absent", "str"}
                  /\ o.enabled.t \in {"absent", "bool"}
        default == [api_key |-> "", model |-> "gemini-2.0-flash",
                    base_url |-> "https://generativelanguage.googleapis.com/v1beta",
                    enabled |-> TRUE]
    IN
    /\ pc = "start" => ENABLED Load
    /\ pc = "loaded" /\ env.kind = "unset" =>
          IF parses
          THEN /\ config.api_key = o.api_key.v
               /\ config.model = IF o.model.t = "str" THEN o.model.v ELSE "gemini-2.0-flash"
               /\ config.base_url = IF o.base_url.t = "str" THEN o.base_url.v
                                    ELSE "https://generativelanguage.googleapis.com/v1beta"
               /\ config.enabled = IF o.enabled.t = "bool" THEN o.enabled.v ELSE TRUE
          ELSE /\ config = default
               /\ op.name = "is_ready" => result = Some([bool |-> FALSE])

C3_Witness ==
    /\ pc = "loaded"
    /\ env.kind = "unset"
    /\ file.state = "object"
    /\ file.obj.api_key = JStr("K")
    /\ file.obj.model = JAbsent
    /\ file.obj.enabled = JBool(FALSE)
    /\ config.model = "gemini-2.0-flash"
    /\ config.api_key = "K"
    /\ ~config.enabled

\* C4: on a ready client, when the endpoint answers with status 429,
\* complete returns RateLimited(60) whatever the body is: unreadable, empty,
\* not JSON, an error field, candidates with text.
C4_Status429IsRateLimited60 ==
    op.name \in {"complete", "complete_with_system"} /\ Answered
        /\ Answer.kind = "http" /\ Answer.status = 429
    => result = Some(Err([err |-> "RateLimited", secs |-> 60]))

C4_Witness ==
    /\ op.name = "complete"
    /\ Answered
    /\ Answer.kind = "http"
    /\ Answer.status = 429
    /\ Answer.body.kind = "json"
    /\ ~Answer.body.has_error
    /\ Answer.body.has_candidates
    /\ Len(Answer.body.candidates) > 0
    /\ Len(Answer.body.candidates[1].parts) > 0
    /\ result = Some(Err([err |-> "RateLimited", secs |-> 60]))

\* C5: on a ready client, when the endpoint answers with a success status
\* and a body that parses and has no error field, complete returns the text
\* of the first part of the first candidate, whatever the other candidates
\* and parts are; with candidates absent or empty, or a first candidate
\* without parts (even when a later candidate has one), it fails with
\* ParseError("No response from AI").
C5_FirstCandidateFirstPart ==
    op.name \in {"complete", "complete_with_system"} /\ Answered
        /\ Answer.kind = "http" /\ Answer.status \in 200..299
        /\ Answer.body.kind = "json" /\ ~Answer.body.has_error
    => LET c == Answer.body.candidates IN
       IF Answer.body.has_candidates /\ c # <<>> /\ c[1].parts # <<>>
       THEN result = Some([ok |-> TRUE, val |-> c[1].parts[1]])
       ELSE result = Some(Err([err |-> "ParseError",
                               msg |-> [fmt |-> "literal", text |-> "No response from AI"]]))

C5_Witness ==
    /\ op.name = "complete"
    /\ Answered
    /\ Answer.kind = "http"
    /\ Answer.status = 200
    /\ Answer.body.kind = "json"
    /\ ~Answer.body.has_error
    /\ Answer.body.has_candidates
    /\ Len(Answer.body.candidates) = 2
    /\ Answer.body.candidates[1].parts = <<>>
    /\ Answer.body.candidates[2].parts # <<>>
    /\ result # None
    /\ ~result[1].ok

C5_WitnessText ==
    /\ op.name = "complete"
    /\ Answered
    /\ Answer.kind = "http"
    /\ Answer.status = 200
    /\ Answer.body.kind = "json"
    /\ ~Answer.body.has_error
    /\ Answer.body.has_candidates
    /\ Len(Answer.body.candidates) = 2
    /\ Answer.body.candidates[1].parts = <<Hello, FencedMute>>
    /\ Answer.body.candidates[2].parts = <<FencedMute>>
    /\ result = Some(Ok(Hello))

\* The model output of a parse_command whose completion succeeded: the text
\* of the first part of the first candidate.
ParseAnswered ==
    /\ op.name = "parse_command"
    /\ Answered
    /\ handle_response(Answer).ok
ModelOutput == Answer.body.candidates[1].parts[1]

\* What parse_command returns for the model output t when core is the text
\* handed to the decoder.
DecodedFrom(core, t) ==
    LET d == from_str_command(core, t.doc) IN
    IF d.okc THEN Some(Ok(d.cmd))
    ELSE Some(Err(ParseError(InvalidJson(d.diag, t))))

\* s without its white space at both ends, by position.
Trimmed(s) ==
    LET keep == {i \in DOMAIN s : s[i] # "W"} IN
    IF keep = {} THEN <<>>
    ELSE LET lo == CHOOSE i \in keep : \A j \in keep : i <= j
             hi == CHOOSE i \in keep : \A j \in keep : j <= i
         IN SubSeq(s, lo, hi)

\* C6 as stated: of a trimmed output that begins with a fence, the opening
\* fence, the json tag right after it if there is one, and the trailing
\* fence if there is one are removed, the rest is trimmed and decoded; any
\* other output is decoded trimmed, as it is.
C6_OneFenceEachSide ==
    ParseAnswered =>
        LET s == Trimmed(ModelOutput.toks)
            a == IF Len(s) >= 2 /\ s[2] = "J" THEN SubSeq(s, 3, Len(s))
                 ELSE SubSeq(s, 2, Len(s))
            b == IF a # <<>> /\ a[Len(a)] = "F" THEN SubSeq(a, 1, Len(a) - 1) ELSE a
        IN
        result = DecodedFrom(IF s # <<>> /\ s[1] = "F" THEN Trimmed(b) ELSE s, ModelOutput)

\* C6, amended: of a trimmed output that begins with a fence, every leading
\* repetition of fence-and-json-tag, then every further leading fence, and
\* then every trailing fence are removed, the rest is trimmed and decoded;
\* any other output is decoded trimmed, as it is.  So the fenced
\* {"action":"mute","duration_seconds":3600} decodes to Mute with duration
\* 3600, as the same document without fence does.
C6_FencesStripped ==
    ParseAnswered =>
        LET s == Trimmed(ModelOutput.toks)
            n == Len(s)
            \* the leading fence-and-tag pairs, then the leading fences
            pairs == CHOOSE k \in 0..n :
                        /\ \A i \in 1..k : 2*i <= n /\ s[2*i - 1] = "F" /\ s[2*i] = "J"
                        /\ ~(2*k + 2 <= n /\ s[2*k + 1] = "F" /\ s[2*k + 2] = "J")
            from == CHOOSE k \in (2*pairs + 1)..(n + 1) :
                        /\ \A i \in (2*pairs + 1)..(k - 1) : s[i] = "F"
                        /\ k <= n => s[k] # "F"
            \* the trailing fences of what is left
            to == CHOOSE k \in (from - 1)..n :
                        /\ \A i \in (k + 1)..n : s[i] = "F"
                        /\ k >= from => s[k] # "F"
        IN
        /\ result = DecodedFrom(IF s # <<>> /\ s[1] = "F"
                                THEN Trimmed(SubSeq(s, from, to)) ELSE s,
                                ModelOutput)
        /\ ModelOutput.doc = MuteDoc /\ ModelOutput.toks \in {Plain, Fenced}
              => result = Some(Ok([variant |-> "Mute", duration_seconds |-> 3600]))

C6_Witness ==
    /\ ParseAnswered
    /\ ModelOutput.toks = <<"F", "J", "W", "D", "W", "F">>
    /\ ModelOutput.doc = MuteDoc
    /\ result = Some(Ok([variant |-> "Mute", duration_seconds |-> 3600]))

\* C7: parse_command never turns a failure into an action.  It returns
\* Unknown only when the model output, fences and white space aside, is one
\* JSON object with action "unknown" and a reason, and then with that
\* reason; when the fence-stripped output is not valid JSON it fails with a
\* ParseError whose message holds the raw model output, untrimmed and with
\* its fences; when the completion fails it returns the completion's error
\* unchanged.
C7_NoFailureBecomesAnAction ==
    LET completion == handle_response(Answer) IN
    op.name = "parse_command" /\ Answered =>
        /\ result # None
        /\ ~completion.ok => result = Some(completion) /\ ~result[1].ok
        /\ completion.ok =>
              LET t == ModelOutput
                  docs == {i \in DOMAIN t.toks : t.toks[i] = "D"}
              IN
              /\ result[1].ok /\ result[1].val.variant = "Unknown" =>
                    /\ Cardinality(docs) = 1
                    /\ \A i \in DOMAIN t.toks : t.toks[i] \in {"F", "J", "W", "D"}
                    /\ t.doc.form = "object"
                    /\ t.doc.action = JStr("unknown")
                    /\ t.doc.reason = JStr(result[1].val.reason)
              /\ json_str(t.toks) # <<"D">> =>
                    /\ ~result[1].ok
                    /\ result[1].error.err = "ParseError"
                    /\ result[1].error.msg.response = t

C7_Witness ==
    /\ ParseAnswered
    /\ ModelOutput.toks = <<"W", "F", "J", "X", "F">>
    /\ result = Some(Err([err |-> "ParseError",
                          msg |-> [fmt |-> "Invalid JSON: e - Response: response",
                                   e |-> "syntax",
                                   response |-> [toks |-> <<"W", "F", "J", "X", "F">>,
                                                 doc |-> NoDoc]]]))

C7_WitnessUnknown ==
    /\ ParseAnswered
    /\ ModelOutput.toks = <<"D">>
    /\ ModelOutput.doc = UnknownDoc
    /\ result = Some(Ok([variant |-> "Unknown", reason |-> "no match"]))

\* The six action tags.
Variants == {"mute", "unmute", "search", "send", "reply", "unknown"}

\* C8: parse_command decodes against a closed schema.  It succeeds only
\* when the JSON is an object whose action is one of mute, unmute, search,
\* send, reply, unknown and that holds the variant's required fields (mute:
\* duration_seconds, an integer >= 0; search: query; send: to and text;
\* unknown: reason; from_user and tone may be missing), and then returns
\* that variant with those fields.  With the action missing or not one of
\* the six, a required field missing, or a negative duration, it fails with
\* ParseError; nothing is coerced to an action.
C8_ClosedSchema ==
    ParseAnswered /\ ModelOutput.toks \in {Plain, Fenced} =>
        LET d == ModelOutput.doc
            r == result[1]
            opt(j) == IF j.t = "str" THEN <<j.v>> ELSE <<>>
            missing(j) == j.t = "absent"
            rejected ==
                \/ d.form # "object"
                \/ missing(d.action)
                \/ d.action.t # "str"
                \/ d.action.v \notin Variants
                \/ d.action.v = "mute"
                     /\ (missing(d.duration_seconds)
                         \/ (d.duration_seconds.t = "int" /\ d.duration_seconds.v < 0))
                \/ d.action.v = "search" /\ missing(d.query)
                \/ d.action.v = "send" /\ (missing(d.to) \/ missing(d.text))
                \/ d.action.v = "unknown" /\ missing(d.reason)
        IN
        /\ rejected => ~r.ok /\ r.error.err = "ParseError" /\ r.error.msg.response = ModelOutput
        /\ r.ok =>
              /\ d.form = "object" /\ d.action.t = "str" /\ d.action.v \in Variants
              /\ d.action.v = "mute" =>
                    /\ d.duration_seconds.t = "int" /\ d.duration_seconds.v >= 0
                    /\ r.val = [variant |-> "Mute", duration_seconds |-> d.duration_seconds.v]
              /\ d.action.v = "unmute" => r.val = [variant |-> "Unmute"]
              /\ d.action.v = "search" =>
                    /\ d.query.t = "str"
                    /\ r.val = [variant |-> "Search", query |-> d.query.v,
                                from_user |-> opt(d.from_user)]
              /\ d.action.v = "send" =>
                    /\ d.to.t = "str" /\ d.text.t = "str"
                    /\ r.val = [variant |-> "Send", to |-> d.to.v, text |-> d.text.v]
              /\ d.action.v = "reply" => r.val = [variant |-> "Reply", tone |-> opt(d.tone)]
              /\ d.action.v = "unknown" =>
                    /\ d.reason.t = "str"
                    /\ r.val = [variant |-> "Unknown", reason |-> d.reason.v]

C8_Witness ==
    /\ ParseAnswered
    /\ ModelOutput.toks = Plain
    /\ ModelOutput.doc.action = JStr("mute")
    /\ ModelOutput.doc.duration_seconds = JInt(-1)
    /\ ModelOutput.doc.reason = JStr("a")
    /\ result # None
    /\ ~result[1].ok
    /\ result[1].error.err = "ParseError"

C8_WitnessSearch ==
    /\ ParseAnswered
    /\ ModelOutput.toks = Fenced
    /\ ModelOutput.doc.action = JStr("search")
    /\ ModelOutput.doc.query = JStr("a")
    /\ ModelOutput.doc.to = JStr("a")
    /\ result = Some(Ok([variant |-> "Search", query |-> "a", from_user |-> None]))

\* C9: generate_reply chooses the tone sentence by the tone alone:
\* "formal" the professional one, "technical" the technical one, anything
\* else ("casual", another string, no tone) the casual one, and no tone is
\* an error.  The request is otherwise the same for every tone: the same
\* system frame around the sentence, the user message
\* "Chat history:\n<context>\n\nDraft a reply:", the same address and
\* generation parameters.  The completion is returned as it is.
C9_ToneChoosesOnlyTheSentence ==
    op.name = "generate_reply" /\ config.enabled /\ config.api_key # "" =>
        LET sentence ==
                IF op.tone = <<"formal">> THEN "Use a professional, formal tone."
                ELSE IF op.tone = <<"technical">>
                     THEN "Use a detailed, technical tone with specific terminology."
                ELSE "Use a friendly, casual tone."
        IN
        /\ request =
              <<[url |-> <<config.base_url, "/models/", config.model,
                           ":generateContent?key=", config.api_key>>,
                 content_type |-> "application/json",
                 contents |-> <<[role |-> <<"user">>,
                                 parts |-> << <<"Chat history:\n", op.arg,
                                                "\n\nDraft a reply:">> >>]>>,
                 system_instruction |->
                     <<[role |-> <<>>,
                        parts |-> << <<REPLY_FRAME_HEAD, sentence, REPLY_FRAME_TAIL>> >>]>>,
                 temperature |-> "0.7",
                 max_output_tokens |-> 2048]>>
        /\ Answered => result = Some(handle_response(Answer))
        /\ Answered /\ Answer.kind = "http" /\ Answer.status = 200
              /\ Answer.body.kind = "json" /\ ~Answer.body.has_error
              /\ Answer.body.has_candidates /\ Answer.body.candidates # <<>>
              /\ Answer.body.candidates[1].parts # <<>>
           => result = Some([ok |-> TRUE, val |-> Answer.body.candidates[1].parts[1]])

C9_Witness ==
    /\ op.name = "generate_reply"
    /\ op.tone = Some("Formal")
    /\ request # None
    /\ request[1].system_instruction[1].parts[1][2] = "Use a friendly, casual tone."
    /\ Answered
    /\ result = Some(Ok(FencedMute))

\* C10: an invocation of a completion operation issues one request when the
\* client is ready and none otherwise, and returns with a result in the
\* step in which the exchange ends, whatever its outcome, without a further
\* request; parse_command, generate_reply and code_assist hand a
\* RateLimited(60) of the transport to the caller unchanged.
C10_OneRequestNoRetry ==
    /\ [](op.name \in CompletionOps =>
            /\ nreq = IF config.enabled /\ config.api_key # "" THEN 1 ELSE 0
            /\ nreq = Len(request)
            /\ pc = "idle" => result # None
            /\ pc = "awaiting" => result = None /\ ~Answered
            /\ Answered /\ Answer.kind = "http" /\ Answer.status = 429
                  => result = Some(Err([err |-> "RateLimited", secs |-> 60])))
    /\ [][pc = "awaiting" =>
            /\ pc' = "idle"
            /\ nreq' = nreq
            /\ request' = request
            /\ op' = op
            /\ result' # None]_vars

C10_Witness ==
    /\ op.name = "parse_command"
    /\ Answered
    /\ Answer.kind = "http"
    /\ Answer.status = 429
    /\ nreq = 1
    /\ pc = "idle"
    /\ result = Some(Err([err |-> "RateLimited", secs |-> 60]))

\* C11: on a ready client the outcome of complete is that of the first
\* step that applies, in this order, and no later step changes it:
\*   1. the transport fails: NetworkError;
\*   2. status 429: RateLimited(60);
\*   3. another status outside 200..299: ApiError with the status and the
\*      raw body, the empty string when the body cannot be read; the body
\*      is not parsed (what it holds does not matter);
\*   4. a body that cannot be read or does not parse: ParseError;
\*   5. a body with an error field: ApiError with that field's message, also
\*      when candidates with text are there;
\*   6. the text of the first part of the first candidate, or
\*      ParseError("No response from AI").
C11_FirstMatchingStepDecides ==
    op.name \in {"complete", "complete_with_system"} /\ Answered =>
        LET r == Answer
            b == r.body
            raw == IF b.kind = "unreadable"
                   THEN [kind |-> "empty", has_candidates |-> FALSE, candidates |-> <<>>,
                         has_error |-> FALSE, error_message |-> ""]
                   ELSE b
            failure == result[1].error
        IN
        /\ result # None
        /\ IF r.kind = "neterr" THEN
               /\ ~result[1].ok
               /\ failure = [err |-> "NetworkError",
                             msg |-> [fmt |-> "display", of |-> r.diag]]
           ELSE IF r.status = 429 THEN
               /\ ~result[1].ok
               /\ failure = [err |-> "RateLimited", secs |-> 60]
           ELSE IF r.status < 200 \/ r.status > 299 THEN
               /\ ~result[1].ok
               /\ failure = [err |-> "ApiError",
                             msg |-> [fmt |-> "status: body", status |-> r.status,
                                      body |-> raw]]
           ELSE IF b.kind # "json" THEN
               /\ ~result[1].ok
               /\ failure.err = "ParseError"
               /\ failure.msg.fmt = "display"
           ELSE IF b.has_error THEN
               /\ ~result[1].ok
               /\ failure = [err |-> "ApiError",
                             msg |-> [fmt |-> "literal", text |-> b.error_message]]
           ELSE IF b.has_candidates /\ b.candidates # <<>> /\ b.candidates[1].parts # <<>>
           THEN result[1] = [ok |-> TRUE, val |-> b.candidates[1].parts[1]]
           ELSE /\ ~result[1].ok
                /\ failure = [err |-> "ParseError",
                              msg |-> [fmt |-> "literal", text |-> "No response from AI"]]

\* A success status, a body with an error field and a first candidate with
\* text: the error field decides.
C11_Witness ==
    /\ op.name = "complete"
    /\ Answered
    /\ Answer.kind = "http"
    /\ Answer.status = 200
    /\ Answer.body.kind = "json"
    /\ Answer.body.has_error
    /\ Answer.body.has_candidates
    /\ Answer.body.candidates # <<>>
    /\ Answer.body.candidates[1].parts = <<Hello>>
    /\ result = Some(Err([err |-> "ApiError",
                          msg |-> [fmt |-> "literal", text |-> "quota exceeded"]]))

\* A non-success status with a body that cannot be read: ApiError with the
\* status and the empty string.
C11_WitnessUnreadable ==
    /\ op.name = "complete"
    /\ Answered
    /\ Answer.kind = "http"
    /\ Answer.status = 500
    /\ Answer.body.kind = "unreadable"
    /\ result = Some(Err(ApiError(StatusBody(500, BodyEmpty))))

=============================================================================
